---- MODULE Spec2Model ----
(***************************************************************************)
(* GitHub Issue Analyzer: the POST /analyze request of backend/main.py and *)
(* the request/response models of backend/models.py.                       *)
(*                                                                         *)
(* Text is modelled as a sequence of one-character strings, so that        *)
(* strip, lower, endswith, substring search and the URL patterns are       *)
(* computed character by character as Python computes them.                *)
(***************************************************************************)
EXTENDS Integers, Sequences, FiniteSets, TLC

VARIABLES
    pc,            \* position of the request (or of the call of parse_github_url)
    input,         \* how the text of repo_url was built
    repo_url,      \* repo_url as sent, then data.repo_url once validated
    issue_number,  \* IssueRequest.issue_number as sent by the client
    parsed,        \* what parse_github_url returned / raised
    issue_data,    \* the dict get_issue_data returned
    comments,      \* the text get_issue_comments returned
    prompt,        \* what was embedded in the prompt sent to the model
    reply,         \* what the model answered
    analysis,      \* the IssueAnalysis that is returned
    fellBack,      \* whether create_fallback_analysis produced the analysis
    status,        \* HTTP status of the response, 0 while none was sent
    calls          \* outbound calls issued so far, in order

vars == <<pc, input, repo_url, issue_number, parsed, issue_data, comments,
          prompt, reply, analysis, fellBack, status, calls>>

----------------------------------------------------------------------------
(* Bounds of the model *)

\* trailing slashes put after a repository URL: 0..MaxSlashes
MaxSlashes == 1
\* blanks put before and after a repository URL: 0..MaxPad
MaxPad == 1

----------------------------------------------------------------------------
(* Python str operations *)

Whitespace == {" ", "\t", "\n"}

Upper == <<"A","B","C","D","E","F","G","H","I","J","K","L","M",
           "N","O","P","Q","R","S","T","U","V","W","X","Y","Z">>
Lowercase == <<"a","b","c","d","e","f","g","h","i","j","k","l","m",
               "n","o","p","q","r","s","t","u","v","w","x","y","z">>
Digits == {"0","1","2","3","4","5","6","7","8","9"}

Range(s) == {s[i] : i \in 1..Len(s)}

Min(S) == CHOOSE x \in S : \A y \in S : x <= y

Rep(c, n) == [i \in 1..n |-> c]

lower_char(c) ==
    IF \E i \in 1..Len(Upper) : Upper[i] = c
    THEN Lowercase[CHOOSE i \in 1..Len(Upper) : Upper[i] = c]
    ELSE c

lower(s) == [i \in 1..Len(s) |-> lower_char(s[i])]

\* s.lstrip(chars) / s.rstrip(chars) / s.strip()
RECURSIVE lstrip(_, _)
lstrip(s, chars) ==
    IF s = <<>> THEN <<>>
    ELSE IF s[1] \in chars THEN lstrip(Tail(s), chars)
    ELSE s

RECURSIVE rstrip(_, _)
rstrip(s, chars) ==
    IF s = <<>> THEN <<>>
    ELSE IF s[Len(s)] \in chars THEN rstrip(SubSeq(s, 1, Len(s) - 1), chars)
    ELSE s

strip(s) == rstrip(lstrip(s, Whitespace), Whitespace)

startswith(s, p) == Len(p) <= Len(s) /\ SubSeq(s, 1, Len(p)) = p

endswith(s, p) ==
    Len(p) <= Len(s) /\ SubSeq(s, Len(s) - Len(p) + 1, Len(s)) = p

\* `p in s`
Contains(s, p) ==
    \E i \in 0..(Len(s) - Len(p)) : SubSeq(s, i + 1, i + Len(p)) = p

\* sep.join(parts)
RECURSIVE join(_, _)
join(sep, parts) ==
    IF parts = <<>> THEN <<>>
    ELSE IF Len(parts) = 1 THEN parts[1]
    ELSE parts[1] \o sep \o join(sep, Tail(parts))

----------------------------------------------------------------------------
(* Text constants of the program *)

HttpsPrefix == <<"h","t","t","p","s",":","/","/","g","i","t","h","u","b",".","c","o","m","/">>
HttpPrefix == <<"h","t","t","p",":","/","/","g","i","t","h","u","b",".","c","o","m","/">>
HostPrefix == <<"g","i","t","h","u","b",".","c","o","m","/">>
BarePrefix == <<>>
GitSuffix == <<".","g","i","t">>

\* the four patterns, in the order the code tries them; each is the prefix
\* followed by ([^/]+)/([^/]+)/?$
patterns == <<HttpsPrefix, HttpPrefix, HostPrefix, BarePrefix>>

----------------------------------------------------------------------------
(* parse_github_url *)

NoMatch == [matched |-> FALSE, owner |-> <<>>, repo |-> <<>>]

\* re.match(prefix + r'([^/]+)/([^/]+)/?$', s): anchored at the start of s;
\* each group is a greedy, non-empty run of characters other than '/';
\* '$' is the end of s or the position before a final newline.
re_match(prefix, s) ==
    IF ~startswith(s, prefix) THEN NoMatch
    ELSE
      LET r  == SubSeq(s, Len(prefix) + 1, Len(s))
          sl == {i \in 1..Len(r) : r[i] = "/"}
      IN  IF sl = {} \/ Min(sl) = 1 THEN NoMatch
          ELSE
            LET i    == Min(sl)
                t    == SubSeq(r, i + 1, Len(r))
                tsl  == {j \in 1..Len(t) : t[j] = "/"}
                e    == IF tsl = {} THEN Len(t) ELSE Min(tsl) - 1
                rest == SubSeq(t, e + 1, Len(t))
            IN  IF e >= 1 /\ rest \in {<<>>, <<"/">>, <<"/", "\n">>}
                THEN [matched |-> TRUE,
                      owner   |-> SubSeq(r, 1, i - 1),
                      repo    |-> SubSeq(t, 1, e)]
                ELSE NoMatch

InvalidURL == [ok |-> FALSE, owner |-> <<>>, repo |-> <<>>]

\* parse_github_url with the fault that the '.git' suffix is kept
parse_github_url_keep_git(url) ==
    IF url = <<>> THEN InvalidURL
    ELSE
      LET u    == rstrip(strip(url), {"/"})
          hits == {k \in 1..Len(patterns) : re_match(patterns[k], u).matched}
      IN  IF hits = {} THEN InvalidURL
          ELSE LET m == re_match(patterns[Min(hits)], u)
               IN  [ok |-> TRUE, owner |-> m.owner, repo |-> m.repo]

parse_github_url(url) ==
    IF url = <<>> THEN InvalidURL
    ELSE
      LET u    == rstrip(strip(url), {"/"})
          hits == {k \in 1..Len(patterns) : re_match(patterns[k], u).matched}
      IN  IF hits = {} THEN InvalidURL
          ELSE LET m == re_match(patterns[Min(hits)], u)
               IN  [ok    |-> TRUE,
                    owner |-> m.owner,
                    repo  |-> IF endswith(m.repo, GitSuffix)
                              THEN SubSeq(m.repo, 1, Len(m.repo) - 4)
                              ELSE m.repo]

----------------------------------------------------------------------------
(* models.py: IssueRequest *)

MinIssueNumber == 1

\* validator('repo_url'): the same four patterns, tried on v.strip()
validate_repo_url(v) ==
    IF v = <<>> \/ strip(v) = <<>> THEN [ok |-> FALSE, value |-> <<>>]
    ELSE IF ~\E k \in 1..Len(patterns) : re_match(patterns[k], strip(v)).matched
    THEN [ok |-> FALSE, value |-> <<>>]
    ELSE [ok |-> TRUE, value |-> strip(v)]

\* IssueRequest(repo_url=..., issue_number=...): ge=1 and the validator
IssueRequest(url, number) ==
    LET u == validate_repo_url(url)
    IN  [ok           |-> u.ok /\ number >= MinIssueNumber,
         repo_url     |-> u.value,
         issue_number |-> number]

----------------------------------------------------------------------------
(* models.py: IssueAnalysis *)

SummaryMaxLength == 200
PriorityMaxLength == 100
ImpactMaxLength == 200
MinItems == 1
MaxItems == 5
LabelLimit == 5

FieldNames ==
    {"summary", "type", "priority_score", "suggested_labels", "potential_impact"}

TypeEnum == {"bug", "feature_request", "documentation", "question", "other"}

\* the character class [a-zA-Z0-9\-_\s]
LabelChars == Range(Lowercase) \cup Range(Upper) \cup Digits \cup {"-", "_"} \cup Whitespace

\* the loop of validate_labels: keep label.strip().lower() when label.strip()
\* is non-empty and the cleaned label matches ^[a-zA-Z0-9\-_\s]+$
RECURSIVE clean_labels(_)
clean_labels(v) ==
    IF v = <<>> THEN <<>>
    ELSE LET cleaned_label == lower(strip(v[1]))
         IN  IF strip(v[1]) # <<>> /\ Range(cleaned_label) \subseteq LabelChars
             THEN <<cleaned_label>> \o clean_labels(Tail(v))
             ELSE clean_labels(Tail(v))

Prefix(s, n) == SubSeq(s, 1, IF Len(s) < n THEN Len(s) ELSE n)

\* validator('suggested_labels')
validate_labels(v) ==
    IF v = <<>> THEN [ok |-> FALSE, value |-> <<>>]
    ELSE IF clean_labels(v) = <<>> THEN [ok |-> FALSE, value |-> <<>>]
    ELSE [ok |-> TRUE, value |-> Prefix(clean_labels(v), LabelLimit)]

\* validator('summary') and validator('potential_impact')
validate_nonblank(v) ==
    IF v = <<>> \/ strip(v) = <<>> THEN [ok |-> FALSE, value |-> <<>>]
    ELSE [ok |-> TRUE, value |-> strip(v)]

NoModel ==
    [summary |-> <<>>, type |-> "", priority_score |-> <<>>,
     suggested_labels |-> <<>>, potential_impact |-> <<>>]

\* IssueAnalysis(**data): every field is required; the Field constraints
\* (max_length, pattern, min_items, max_items) are checked on the value as
\* given, and a field's validator runs only on a value that passed them.
IssueAnalysis(data) ==
    LET labels == validate_labels(data.suggested_labels)
        valid  ==
            /\ data.keys = FieldNames
            /\ Len(data.summary) <= SummaryMaxLength
            /\ validate_nonblank(data.summary).ok
            /\ data.type \in TypeEnum
            /\ Len(data.priority_score) <= PriorityMaxLength
            /\ Len(data.suggested_labels) >= MinItems
            /\ Len(data.suggested_labels) <= MaxItems
            /\ labels.ok
            /\ Len(data.potential_impact) <= ImpactMaxLength
            /\ validate_nonblank(data.potential_impact).ok
    IN  IF valid
        THEN [ok    |-> TRUE,
              model |-> [summary          |-> validate_nonblank(data.summary).value,
                         type             |-> data.type,
                         priority_score   |-> data.priority_score,
                         suggested_labels |-> labels.value,
                         potential_impact |-> validate_nonblank(data.potential_impact).value]]
        ELSE [ok |-> FALSE, model |-> NoModel]

----------------------------------------------------------------------------
(* main.py: GitHub client *)

HTTP_OK == 200
HTTP_BAD_REQUEST == 400
HTTP_FORBIDDEN == 403
HTTP_NOT_FOUND == 404
HTTP_BAD_GATEWAY == 502
HTTP_INTERNAL_ERROR == 500
\* FastAPI's answer to a body that fails the IssueRequest model; the handler
\* is not entered and main.py registers no handler that changes it
HTTP_UNPROCESSABLE == 422

NoIssue ==
    [title |-> <<>>, body_is_null |-> TRUE, body |-> <<>>, state |-> <<>>,
     labels |-> <<>>, comments |-> 0, comments_url |-> <<>>, pull_request |-> FALSE]

\* get_issue_data with the fault that a 404 is raised as a RequestException
\* like the other statuses
get_issue_data_404_upstream(owner, repo, number, response) ==
    IF number <= 0
    THEN [called |-> FALSE, exc |-> "ValueError", data |-> NoIssue]
    ELSE IF response.kind \in {"timeout", "connection"}
    THEN [called |-> TRUE, exc |-> "RequestException", data |-> NoIssue]
    ELSE IF response.code = HTTP_FORBIDDEN
    THEN [called |-> TRUE, exc |-> "ValueError", data |-> NoIssue]
    ELSE IF response.code # HTTP_OK
    THEN [called |-> TRUE, exc |-> "RequestException", data |-> NoIssue]
    ELSE [called |-> TRUE, exc |-> "none", data |-> response.json]

\* get_issue_data(owner, repo, issue_number); `response` is what GitHub does
\* when the GET is issued
get_issue_data(owner, repo, number, response) ==
    IF number <= 0
    THEN [called |-> FALSE, exc |-> "ValueError", data |-> NoIssue]
    ELSE IF response.kind = "timeout"
    THEN [called |-> TRUE, exc |-> "RequestException", data |-> NoIssue]
    ELSE IF response.kind = "connection"
    THEN [called |-> TRUE, exc |-> "RequestException", data |-> NoIssue]
    ELSE IF response.code = HTTP_NOT_FOUND
    THEN [called |-> TRUE, exc |-> "ValueError", data |-> NoIssue]
    ELSE IF response.code = HTTP_FORBIDDEN
    THEN [called |-> TRUE, exc |-> "ValueError", data |-> NoIssue]
    ELSE IF response.code # HTTP_OK
    THEN [called |-> TRUE, exc |-> "RequestException", data |-> NoIssue]
    ELSE [called |-> TRUE, exc |-> "none", data |-> response.json]

CommentBy == <<"C","o","m","m","e","n","t"," ","b","y"," ">>
CommentSeparator == <<"\n","-","-","-","C","O","M","M","E","N","T","-","-","-","\n">>
Unknown == <<"u","n","k","n","o","w","n">>

\* the loop over comments_data: "Comment by {author}:\n{body}" for every
\* comment whose stripped body is not empty
RECURSIVE formatted_comments(_)
formatted_comments(items) ==
    IF items = <<>> THEN <<>>
    ELSE IF strip(items[1].body) # <<>>
    THEN <<CommentBy \o (IF items[1].has_login THEN items[1].login ELSE Unknown)
           \o <<":", "\n">> \o strip(items[1].body)>>
         \o formatted_comments(Tail(items))
    ELSE formatted_comments(Tail(items))

\* whether iterating the payload raises: it is not a list of comment
\* objects, or a comment's "user" or "body" is null
PayloadRaises(payload) ==
    \/ payload.shape # "list"
    \/ \E i \in 1..Len(payload.items) :
          payload.items[i].user_is_null \/ payload.items[i].body_is_null

\* get_issue_comments with the fault that a failed call raises instead of
\* degrading to ""
get_issue_comments_raising(comments_url, response) ==
    IF comments_url = <<>>
    THEN [called |-> FALSE, exc |-> "none", text |-> <<>>]
    ELSE IF response.kind \in {"timeout", "connection"}
    THEN [called |-> TRUE, exc |-> "RequestException", text |-> <<>>]
    ELSE IF response.code # HTTP_OK
    THEN [called |-> TRUE, exc |-> "RequestException", text |-> <<>>]
    ELSE IF PayloadRaises(response.json)
    THEN [called |-> TRUE, exc |-> "Exception", text |-> <<>>]
    ELSE [called |-> TRUE, exc |-> "none",
          text |-> join(CommentSeparator, formatted_comments(response.json.items))]

\* get_issue_comments(comments_url)
get_issue_comments(comments_url, response) ==
    IF comments_url = <<>>
    THEN [called |-> FALSE, exc |-> "none", text |-> <<>>]
    ELSE IF response.kind \in {"timeout", "connection"}
    THEN [called |-> TRUE, exc |-> "none", text |-> <<>>]
    ELSE IF response.code # HTTP_OK
    THEN [called |-> TRUE, exc |-> "none", text |-> <<>>]
    ELSE IF PayloadRaises(response.json)
    THEN [called |-> TRUE, exc |-> "none", text |-> <<>>]
    ELSE IF response.json.items = <<>>
    THEN [called |-> TRUE, exc |-> "none", text |-> <<>>]
    ELSE [called |-> TRUE, exc |-> "none",
          text |-> join(CommentSeparator, formatted_comments(response.json.items))]

----------------------------------------------------------------------------
(* main.py: fallback analysis *)

TitleLimit == 100
FallbackLabelLimit == 3

SummaryPrefix == <<"I","s","s","u","e"," ","r","e","g","a","r","d","i","n","g",":"," ">>
Ellipsis == <<".",".",".">>
FallbackPriority == <<"3"," ","-"," ","U","n","a","b","l","e"," ","t","o"," ","d","e","t","e","r","m","i","n","e"," ","e","x","a","c","t"," ","p","r","i","o","r","i","t","y",","," ","d","e","f","a","u","l","t","i","n","g"," ","t","o"," ","m","o","d","e","r","a","t","e">>
FallbackImpact == <<"I","m","p","a","c","t"," ","a","s","s","e","s","s","m","e","n","t"," ","r","e","q","u","i","r","e","s"," ","m","a","n","u","a","l"," ","r","e","v","i","e","w"," ","d","u","e"," ","t","o"," ","p","r","o","c","e","s","s","i","n","g"," ","e","r","r","o","r">>
NeedsTriage == <<"n","e","e","d","s","-","t","r","i","a","g","e">>

BugWords ==
    {<<"b","u","g">>, <<"e","r","r","o","r">>, <<"i","s","s","u","e">>,
     <<"b","r","o","k","e","n">>, <<"n","o","t"," ","w","o","r","k","i","n","g">>}
FeatureWords ==
    {<<"f","e","a","t","u","r","e">>, <<"a","d","d">>, <<"s","u","p","p","o","r","t">>,
     <<"e","n","h","a","n","c","e","m","e","n","t">>}
DocWords ==
    {<<"d","o","c">>, <<"d","o","c","u","m","e","n","t","a","t","i","o","n">>,
     <<"r","e","a","d","m","e">>}
QuestionStarts ==
    {<<"h","o","w">>, <<"w","h","y">>, <<"w","h","a","t">>, <<"?">>}

\* create_fallback_analysis with the fault that the keyword tests also look
\* at body_lower
create_fallback_analysis_body(title, body, existing_labels) ==
    LET text == lower(title) \o <<" ">> \o lower(body)
        issue_type ==
            IF \E w \in BugWords : Contains(text, w) THEN "bug"
            ELSE IF \E w \in FeatureWords : Contains(text, w) THEN "feature_request"
            ELSE IF \E w \in DocWords : Contains(text, w) THEN "documentation"
            ELSE IF \E w \in QuestionStarts : startswith(text, w) THEN "question"
            ELSE "other"
    IN  [keys             |-> FieldNames,
         summary          |-> SummaryPrefix \o Prefix(title, TitleLimit)
                              \o (IF Len(title) > TitleLimit THEN Ellipsis ELSE <<>>),
         type             |-> issue_type,
         priority_score   |-> FallbackPriority,
         suggested_labels |-> IF existing_labels # <<>>
                              THEN Prefix(existing_labels, FallbackLabelLimit)
                              ELSE <<NeedsTriage>>,
         potential_impact |-> FallbackImpact]

\* create_fallback_analysis(title, body, existing_labels)
create_fallback_analysis(title, body, existing_labels) ==
    LET title_lower == lower(title)
        issue_type ==
            IF \E w \in BugWords : Contains(title_lower, w) THEN "bug"
            ELSE IF \E w \in FeatureWords : Contains(title_lower, w) THEN "feature_request"
            ELSE IF \E w \in DocWords : Contains(title_lower, w) THEN "documentation"
            ELSE IF \E w \in QuestionStarts : startswith(title_lower, w) THEN "question"
            ELSE "other"
    IN  [keys             |-> FieldNames,
         summary          |-> SummaryPrefix \o Prefix(title, TitleLimit)
                              \o (IF Len(title) > TitleLimit THEN Ellipsis ELSE <<>>),
         type             |-> issue_type,
         priority_score   |-> FallbackPriority,
         suggested_labels |-> IF existing_labels # <<>>
                              THEN Prefix(existing_labels, FallbackLabelLimit)
                              ELSE <<NeedsTriage>>,
         potential_impact |-> FallbackImpact]

----------------------------------------------------------------------------
(* main.py: analyze_with_llm *)

NoDescription == <<"N","o"," ","d","e","s","c","r","i","p","t","i","o","n"," ","p","r","o","v","i","d","e","d">>
NoComments == <<"N","o"," ","c","o","m","m","e","n","t","s">>

label_names(labels) == [i \in 1..Len(labels) |-> labels[i].name]

\* what the f-string embeds in the fixed template
build_prompt(title, body, cmts, labels, state) ==
    [title           |-> title,
     body            |-> IF body # <<>> THEN body ELSE NoDescription,
     state           |-> state,
     existing_labels |-> label_names(labels),
     comments        |-> IF cmts # <<>> THEN cmts ELSE NoComments]

\* analyze_with_llm(title, body, comments, labels, state); `answer` is what
\* generate_content does and what re.search / json.loads make of its text:
\*   "raises"      generate_content raises
\*   "empty"       no response or no text: ValueError inside the try
\*   "not_json"    json.loads raises JSONDecodeError
\*   "json_scalar" json.loads returns a value that is no mapping: ** raises
\*   "json_object" json.loads returns the dict answer.data
\* An exception of the second IssueAnalysis(...) (line 293) is not caught.
analyze_with_llm(title, body, cmts, labels, state, answer) ==
    LET existing_labels == label_names(labels)
        fallback_data == create_fallback_analysis(title, body, existing_labels)
        \* the try block, lines 263-288
        tried ==
            IF answer.kind = "json_object"
            THEN [returned |-> IssueAnalysis(answer.data).ok,
                  model    |-> IssueAnalysis(answer.data).model,
                  fellBack |-> FALSE]
            ELSE IF answer.kind = "not_json"
            THEN [returned |-> IssueAnalysis(fallback_data).ok,
                  model    |-> IssueAnalysis(fallback_data).model,
                  fellBack |-> TRUE]
            ELSE [returned |-> FALSE, model |-> NoModel, fellBack |-> FALSE]
        \* the except block, lines 290-293
        handled == IssueAnalysis(fallback_data)
    IN  IF tried.returned
        THEN [exc |-> "none", model |-> tried.model, fellBack |-> tried.fellBack]
        ELSE IF handled.ok
        THEN [exc |-> "none", model |-> handled.model, fellBack |-> TRUE]
        ELSE [exc |-> "ValidationError", model |-> NoModel, fellBack |-> TRUE]

----------------------------------------------------------------------------
(* main.py: analyze_issue *)

\* the comments test with the fault that it always passes
ShouldFetchComments_always(data) == TRUE

\* `if issue_data.get("comments", 0) > 0`
ShouldFetchComments(data) == data.comments > 0

\* the except clauses of analyze_issue, in order; pydantic's ValidationError
\* is a ValueError
HandlerStatus(exc) ==
    IF exc \in {"ValueError", "ValidationError"} THEN HTTP_BAD_REQUEST
    ELSE IF exc = "RequestException" THEN HTTP_BAD_GATEWAY
    ELSE HTTP_INTERNAL_ERROR

----------------------------------------------------------------------------
(* Inputs: repository URLs *)

Slashes(n) == Rep("/", n)
Blanks(n) == Rep(" ", n)

Facebook == <<"f","a","c","e","b","o","o","k">>
GithubCom == <<"g","i","t","h","u","b",".","c","o","m">>
React == <<"r","e","a","c","t">>

\* owner and repository names without a slash
Owners == {Facebook, GithubCom, <<" ","o">>}
Repos == {React, <<"g","i","t">>, <<"x",".","g","i","t">>, <<"r"," ">>}

\* one spelling of a repository: blanks, scheme and host as in patterns[scheme],
\* OWNER/REPO, optionally ".git", trailing slashes, blanks
Spelling(owner, repo, scheme, git, slashes, pad) ==
    Blanks(pad) \o patterns[scheme] \o owner \o <<"/">> \o repo
    \o (IF git THEN GitSuffix ELSE <<>>) \o Slashes(slashes) \o Blanks(pad)

SpellingInputs ==
    {[kind |-> "spelling", owner |-> o, repo |-> r, scheme |-> k, git |-> g,
      slashes |-> n, pad |-> w, text |-> Spelling(o, r, k, g, n, w)] :
        o \in Owners, r \in Repos, k \in 1..Len(patterns), g \in BOOLEAN,
        n \in 0..MaxSlashes, w \in 0..MaxPad}

\* texts that name no OWNER/REPO: empty, blank, without a slash, a scheme
\* and host or a host with one path segment, three segments, another host,
\* an empty owner
MalformedTexts ==
    {<<>>,
     <<" ">>,
     <<"n","o","t"," ","a"," ","u","r","l">>,
     HostPrefix \o <<"o","n","l","y","o","w","n","e","r">>,
     HttpsPrefix \o <<"o","n","l","y","o","w","n","e","r">>,
     HostPrefix,
     <<"a","/","b","/","c">>,
     HttpsPrefix \o <<"a","/","b","/","c">>,
     <<"h","t","t","p","s",":","/","/","g","i","t","l","a","b",".","c","o","m","/","a","/","b">>,
     <<"/","r">>}

MalformedInputs ==
    {[kind |-> "malformed", owner |-> <<>>, repo |-> <<>>, scheme |-> 1, git |-> FALSE,
      slashes |-> 0, pad |-> 0, text |-> t] : t \in MalformedTexts}

ParseInputs == SpellingInputs \cup MalformedInputs

\* the repository URLs tried in POST /analyze
RequestInputs ==
    {i \in MalformedInputs :
        i.text \in {<<>>, <<"n","o","t"," ","a"," ","u","r","l">>,
                    HostPrefix \o <<"o","n","l","y","o","w","n","e","r">>}}
    \cup {i \in SpellingInputs :
            /\ i.owner = Facebook /\ i.repo = React
            /\ i.scheme = 4 /\ i.git /\ i.slashes = 0 /\ i.pad = MaxPad}

----------------------------------------------------------------------------
(* Inputs: what GitHub answers *)

\* issue numbers tried: the smallest valid one and the MaxBelow numbers below it
MaxBelow == 2
IssueNumbers == (MinIssueNumber - MaxBelow)..MinIssueNumber

Titles ==
    {<<"B","u","g",":"," ","l","o","g","i","n"," ","b","r","o","k","e","n">>,
     <<"A","d","d"," ","d","o","c","s">>,
     <<"H","o","w"," ","d","o"," ","I"," ","c","o","n","f","i","g","u","r","e"," ","X","?">>,
     <<"U","p","d","a","t","e"," ","R","E","A","D","M","E">>,
     <<"W","h","a","t"," ","e","r","r","o","r","?">>,
     <<"T","y","p","o">>,
     Rep("z", TitleLimit + 1)}

BodyText == <<"I","t"," ","h","a","s"," ","a"," ","b","u","g">>

L(name) == [name |-> name]

\* the labels an issue carries
LabelLists ==
    {<<>>,
     <<L(<<"b","u","g">>)>>,
     <<L(<<"t","y","p","e",":"," ","b","u","g">>)>>,
     <<L(<<"G","o","o","d"," ","F","i","r","s","t">>), L(<<"a",":","b">>),
       L(<<"o","k","_","1">>), L(<<"u","i">>)>>}

CommentsUrl == <<"h","t","t","p","s",":","/","/","a","p","i",".","g","i","t","h","u","b",".","c","o","m","/","c">>

\* an issue without comments always carries its comments_url
Issues ==
    {i \in {[title |-> t, body_is_null |-> n, body |-> IF n THEN <<>> ELSE BodyText,
             state |-> <<"o","p","e","n">>, labels |-> ls, comments |-> c,
             comments_url |-> u, pull_request |-> FALSE] :
               t \in Titles, n \in BOOLEAN, ls \in LabelLists,
               c \in {0, 2}, u \in {<<>>, CommentsUrl}} :
        i.comments > 0 \/ i.comments_url # <<>>}

NoPayload == [shape |-> "other", items |-> <<>>]

Failures ==
    {[kind |-> "timeout", code |-> 0], [kind |-> "connection", code |-> 0],
     [kind |-> "http", code |-> HTTP_NOT_FOUND], [kind |-> "http", code |-> HTTP_FORBIDDEN],
     [kind |-> "http", code |-> HTTP_INTERNAL_ERROR]}

IssueResponses ==
    {[kind |-> f.kind, code |-> f.code, json |-> NoIssue] : f \in Failures}
    \cup {[kind |-> "http", code |-> HTTP_OK, json |-> i] : i \in Issues}

Comment(login, body) ==
    [user_is_null |-> FALSE, has_login |-> TRUE, login |-> login,
     body_is_null |-> FALSE, body |-> body]

Alice == <<"a","l","i","c","e">>

CommentPayloads ==
    {NoPayload,
     [shape |-> "list", items |-> <<>>],
     [shape |-> "list", items |-> <<Comment(Alice, <<"h","i"," ">>), Comment(Alice, <<" ">>),
                                    [Comment(Alice, <<"o","k">>) EXCEPT !.has_login = FALSE]>>],
     [shape |-> "list", items |-> <<[Comment(Alice, <<"h","i">>) EXCEPT !.user_is_null = TRUE]>>],
     [shape |-> "list", items |-> <<[Comment(Alice, <<>>) EXCEPT !.body_is_null = TRUE]>>]}

CommentResponses ==
    {[kind |-> f.kind, code |-> f.code, json |-> NoPayload] : f \in Failures}
    \cup {[kind |-> "http", code |-> HTTP_OK, json |-> p] : p \in CommentPayloads}

----------------------------------------------------------------------------
(* Inputs: what the model answers *)

\* the longest suggested_labels list a reply carries
MaxListed == 6

GoodLabels == <<<<"b","u","g">>, <<" ","G","o","o","d"," ","F","i","r","s","t"," ">>, <<"o","k","_","1">>>>
MixedLabels == <<<<"a",":","b">>, <<"U","I">>, <<" ">>, <<"t","y","p","e",":"," ","b","u","g">>>>

\* n labels taken in turn from pool
Listed(pool, n) == [i \in 1..n |-> pool[((i - 1) % Len(pool)) + 1]]

Good ==
    [keys |-> FieldNames, summary |-> <<"x">>, type |-> "bug", priority_score |-> <<"1">>,
     suggested_labels |-> <<<<"b","u","g">>>>, potential_impact |-> <<"y">>]

Objects ==
    {Good,
     [Good EXCEPT !.type = "Bug"],
     [Good EXCEPT !.type = "feature_request", !.summary = <<" ","x"," ">>],
     [Good EXCEPT !.summary = Rep("x", SummaryMaxLength + 1)],
     [Good EXCEPT !.summary = <<" ">>],
     [Good EXCEPT !.priority_score = Rep("p", PriorityMaxLength + 1)],
     [Good EXCEPT !.priority_score = <<>>],
     [Good EXCEPT !.potential_impact = Rep(" ", 2)],
     [Good EXCEPT !.keys = FieldNames \ {"potential_impact"}]}
    \cup {[Good EXCEPT !.suggested_labels = Listed(pool, n)] :
            pool \in {GoodLabels, MixedLabels}, n \in 0..MaxListed}

Replies ==
    {[kind |-> k, data |-> Good] : k \in {"raises", "empty", "not_json", "json_scalar"}}
    \cup {[kind |-> "json_object", data |-> d] : d \in Objects}

----------------------------------------------------------------------------
(* POST /analyze *)

NoParse == InvalidURL
NoPrompt == build_prompt(<<>>, <<>>, <<>>, <<>>, <<>>)
NoReply == [kind |-> "none", data |-> Good]

\* one entry of the log of outbound calls: which call, and how it ended
Call(name, kind, code, malformed) ==
    [name |-> name, kind |-> kind, code |-> code, malformed |-> malformed]

Init ==
    /\ pc = "received"
    /\ input \in RequestInputs
    /\ repo_url = input.text
    /\ issue_number \in IssueNumbers
    /\ parsed = NoParse
    /\ issue_data = NoIssue
    /\ comments = <<>>
    /\ prompt = NoPrompt
    /\ reply = NoReply
    /\ analysis = NoModel
    /\ fellBack = FALSE
    /\ status = 0
    /\ calls = <<>>

\* the body is validated into an IssueRequest before analyze_issue is entered
ValidateRequest ==
    /\ pc = "received"
    /\ LET data == IssueRequest(repo_url, issue_number)
       IN  IF data.ok
           THEN /\ pc' = "parse"
                /\ repo_url' = data.repo_url
                /\ status' = status
           ELSE /\ pc' = "done"
                /\ repo_url' = repo_url
                /\ status' = HTTP_UNPROCESSABLE
    /\ UNCHANGED <<input, issue_number, parsed, issue_data, comments, prompt,
                   reply, analysis, fellBack, calls>>

\* line 82
ParseUrl ==
    /\ pc = "parse"
    /\ parsed' = parse_github_url(repo_url)
    /\ IF parsed'.ok
       THEN pc' = "fetch_issue" /\ status' = status
       ELSE pc' = "done" /\ status' = HandlerStatus("ValueError")
    /\ UNCHANGED <<input, repo_url, issue_number, issue_data, comments, prompt,
                   reply, analysis, fellBack, calls>>

\* lines 86-91
FetchIssue ==
    /\ pc = "fetch_issue"
    /\ \E response \in IssueResponses :
         LET r == get_issue_data(parsed.owner, parsed.repo, issue_number, response)
         IN  /\ calls' = IF r.called THEN Append(calls, Call("issue", response.kind, response.code, FALSE)) ELSE calls
             /\ IF r.exc = "none"
                THEN /\ issue_data' = r.data
                     /\ status' = status
                     /\ pc' = IF ShouldFetchComments(r.data)
                              THEN "fetch_comments" ELSE "analyze"
                ELSE /\ issue_data' = issue_data
                     /\ status' = HandlerStatus(r.exc)
                     /\ pc' = "done"
    /\ UNCHANGED <<input, repo_url, issue_number, parsed, comments, prompt,
                   reply, analysis, fellBack>>

\* line 92
FetchComments ==
    /\ pc = "fetch_comments"
    /\ \E response \in CommentResponses :
         LET r == get_issue_comments(issue_data.comments_url, response)
         IN  /\ calls' = IF r.called
                          THEN Append(calls, Call("comments", response.kind, response.code,
                                                  PayloadRaises(response.json)))
                          ELSE calls
             /\ IF r.exc = "none"
                THEN comments' = r.text /\ status' = status /\ pc' = "analyze"
                ELSE comments' = comments /\ status' = HandlerStatus(r.exc) /\ pc' = "done"
    /\ UNCHANGED <<input, repo_url, issue_number, parsed, issue_data, prompt,
                   reply, analysis, fellBack>>

\* lines 96-105
Analyze ==
    /\ pc = "analyze"
    /\ \E answer \in Replies :
         LET body == IF issue_data.body_is_null THEN <<>> ELSE issue_data.body
             r == analyze_with_llm(issue_data.title, body, comments,
                                   issue_data.labels, issue_data.state, answer)
         IN  /\ prompt' = build_prompt(issue_data.title, body, comments,
                                       issue_data.labels, issue_data.state)
             /\ reply' = answer
             /\ calls' = Append(calls, Call("llm", answer.kind, 0, FALSE))
             /\ analysis' = r.model
             /\ fellBack' = r.fellBack
             /\ status' = IF r.exc = "none" THEN HTTP_OK ELSE HandlerStatus(r.exc)
    /\ pc' = "done"
    /\ UNCHANGED <<input, repo_url, issue_number, parsed, issue_data, comments>>

Next == ValidateRequest \/ ParseUrl \/ FetchIssue \/ FetchComments \/ Analyze

Spec == Init /\ [][Next]_vars

----------------------------------------------------------------------------
(* parse_github_url on its own *)

InitParse ==
    /\ pc = "call"
    /\ input \in ParseInputs
    /\ repo_url = input.text
    /\ issue_number = MinIssueNumber
    /\ parsed = NoParse
    /\ issue_data = NoIssue
    /\ comments = <<>>
    /\ prompt = NoPrompt
    /\ reply = NoReply
    /\ analysis = NoModel
    /\ fellBack = FALSE
    /\ status = 0
    /\ calls = <<>>

ParseCall ==
    /\ pc = "call"
    /\ parsed' = parse_github_url(repo_url)
    /\ pc' = "returned"
    /\ UNCHANGED <<input, repo_url, issue_number, issue_data, comments, prompt,
                   reply, analysis, fellBack, status, calls>>

NextParse == ParseCall

SpecParse == InitParse /\ [][NextParse]_vars

----------------------------------------------------------------------------
(* Properties of POST /analyze *)

Names(log) == [i \in 1..Len(log) |-> log[i].name]

Done == pc = "done"

\* the issue fetch was issued and GitHub answered 200
IssueFetched ==
    /\ calls # <<>>
    /\ calls[1].name = "issue" /\ calls[1].kind = "http" /\ calls[1].code = HTTP_OK

\* the rules of the analysis validator, one by one (priority_score is held
\* to its length only, as the IssueAnalysis class holds it)
Trimmed(t) == t # <<>> /\ t[1] \notin Whitespace /\ t[Len(t)] \notin Whitespace

LabelWellFormed(l) ==
    /\ Trimmed(l)
    /\ \A i \in 1..Len(l) : l[i] \in LabelChars /\ l[i] \notin Range(Upper)

SatisfiesValidator(a) ==
    /\ Trimmed(a.summary) /\ Len(a.summary) <= SummaryMaxLength
    /\ a.type \in TypeEnum
    /\ Len(a.priority_score) <= PriorityMaxLength
    /\ Len(a.suggested_labels) \in MinItems..LabelLimit
    /\ \A i \in 1..Len(a.suggested_labels) : LabelWellFormed(a.suggested_labels[i])
    /\ Trimmed(a.potential_impact) /\ Len(a.potential_impact) <= ImpactMaxLength

\* C1: once the issue was fetched (HTTP 200), whatever the model answers and
\* whatever title, body and labels the issue has, the request ends with a
\* success response whose analysis satisfies every validator rule.
C1_FetchedIssueAlwaysAnalysed ==
    (Done /\ IssueFetched) => (status = HTTP_OK /\ SatisfiesValidator(analysis))

\* C2: an issue fetch that ends in a timeout, a connection failure, a 403 or
\* any non-200 status other than 404 is answered with 502.
C2_UpstreamFailureIs502 ==
    (/\ Done
     /\ calls # <<>>
     /\ calls[1].name = "issue"
     /\ \/ calls[1].kind \in {"timeout", "connection"}
        \/ calls[1].kind = "http" /\ calls[1].code \notin {HTTP_OK, HTTP_NOT_FOUND})
    => status = HTTP_BAD_GATEWAY

NotFoundAnswered ==
    calls # <<>> /\ calls[1].name = "issue" /\ calls[1].kind = "http"
    /\ calls[1].code = HTTP_NOT_FOUND

\* C3: a 404 from GitHub on the issue fetch ends the request with 400, never
\* 502, and neither the comments fetch nor the model call follows it.
C3_NotFoundIs400 ==
    NotFoundAnswered =>
        /\ Done
        /\ status = HTTP_BAD_REQUEST
        /\ status # HTTP_BAD_GATEWAY
        /\ Names(calls) = <<"issue">>

C3_Witness == NotFoundAnswered /\ Done /\ status = HTTP_BAD_REQUEST

\* C4: a request whose issue_number is 0 or negative is answered with 400 and
\* issues no outbound call.
C4_BadNumberIs400 ==
    (Done /\ issue_number <= 0) => (status = HTTP_BAD_REQUEST /\ calls = <<>>)

\* C5: the outbound calls of one request are issued in the order issue,
\* comments, model, each at most once; anything after the issue fetch needs
\* its success, the comments fetch needs a comment count above 0, and the
\* model call is the last thing the request does.
C5_CallsSequentialOnce ==
    /\ Names(calls) \in {<<>>, <<"issue">>, <<"issue", "comments">>,
                         <<"issue", "llm">>, <<"issue", "comments", "llm">>}
    /\ Len(calls) >= 2 => IssueFetched
    /\ (\E i \in 1..Len(calls) : calls[i].name = "comments") => issue_data.comments > 0
    /\ (\E i \in 1..Len(calls) : calls[i].name = "llm") => Done
    /\ (calls # <<>> /\ ~IssueFetched) => Done

C5_Witness ==
    /\ Done
    /\ Names(calls) = <<"issue", "comments", "llm">>
    /\ calls[2].kind = "timeout"

\* the comments call was issued and failed
CommentsFailed ==
    \E i \in 1..Len(calls) :
        /\ calls[i].name = "comments"
        /\ \/ calls[i].kind \in {"timeout", "connection"}
           \/ calls[i].code # HTTP_OK
           \/ calls[i].malformed

\* the status of the same request had the issue no comments
StatusWithoutComments ==
    IF analyze_with_llm(issue_data.title,
                        IF issue_data.body_is_null THEN <<>> ELSE issue_data.body,
                        <<>>, issue_data.labels, issue_data.state, reply).exc = "none"
    THEN HTTP_OK ELSE HTTP_BAD_REQUEST

\* C6: a failed comments call (timeout, connection error, non-200, malformed
\* payload) yields the empty text without an error response; the request goes
\* on to the model with "No comments" and ends with the status it would have
\* for an issue without comments.
C6_CommentsFailureAbsorbed ==
    CommentsFailed =>
        /\ comments = <<>>
        /\ pc \in {"analyze", "done"}
        /\ ~Done => status = 0
        /\ Done => /\ Names(calls) = <<"issue", "comments", "llm">>
                   /\ prompt.comments = NoComments
                   /\ status = StatusWithoutComments

C6_Witness ==
    /\ Done
    /\ CommentsFailed
    /\ calls[2].malformed
    /\ status = HTTP_OK

\* the reply cannot be parsed as a JSON object, or the object fails validation
ReplyUnusable ==
    reply.kind \in {"not_json", "json_scalar"}
    \/ (reply.kind = "json_object" /\ ~IssueAnalysis(reply.data).ok)

\* the ordered rules on the lower-cased title, first match wins
RuleTypes == <<"bug", "feature_request", "documentation", "question">>

RuleHits(k, t) ==
    CASE k = 1 -> \E w \in BugWords : Contains(t, w)
      [] k = 2 -> \E w \in FeatureWords : Contains(t, w)
      [] k = 3 -> \E w \in DocWords : Contains(t, w)
      [] k = 4 -> \E w \in QuestionStarts : startswith(t, w)

TitleType(title) ==
    LET hits == {k \in 1..Len(RuleTypes) : RuleHits(k, lower(title))}
    IN  IF hits = {} THEN "other" ELSE RuleTypes[Min(hits)]

\* C9: when the reply cannot be parsed as a JSON object or fails validation,
\* the analysis returned is the fallback, and a fallback's type is the one the
\* ordered title rules give; body, labels and reply text do not enter.
C9_FallbackTypeFromTitle ==
    (Done /\ status = HTTP_OK) =>
        /\ ReplyUnusable => fellBack
        /\ fellBack => analysis.type = TitleType(issue_data.title)

C9_Witness ==
    /\ Done /\ status = HTTP_OK
    /\ reply.kind = "json_object" /\ ReplyUnusable
    /\ ~issue_data.body_is_null /\ Contains(lower(issue_data.body), <<"b","u","g">>)
    /\ issue_data.labels # <<>>
    /\ analysis.type = "other"

\* the candidate is valid in every field but suggested_labels, and at least
\* one of its labels survives the cleaning
ValidButForLabels(d) ==
    /\ IssueAnalysis([d EXCEPT !.suggested_labels = Good.suggested_labels]).ok
    /\ clean_labels(d.suggested_labels) # <<>>

\* C8: a candidate with at least one well-formed label is accepted; its labels
\* come out trimmed, lower-cased and free of entries with other characters,
\* and a list of more than 5 is cut to the first 5 survivors, not rejected.
C8_LabelsCleanedAndTruncated ==
    (Done /\ status = HTTP_OK /\ reply.kind = "json_object" /\ ValidButForLabels(reply.data))
    => /\ ~fellBack
       /\ Len(analysis.suggested_labels) \in MinItems..LabelLimit
       /\ \A i \in 1..Len(analysis.suggested_labels) :
             LabelWellFormed(analysis.suggested_labels[i])
       /\ analysis.suggested_labels = Prefix(clean_labels(reply.data.suggested_labels), LabelLimit)

----------------------------------------------------------------------------
(* Properties of parse_github_url *)

Returned == pc = "returned"

\* C7: every malformed repository URL (empty, without a slash, a host with a
\* single path segment, ...) makes parse_github_url fail with InvalidURL.
C7_MalformedUrlFails ==
    (Returned /\ input.kind = "malformed") => parsed = InvalidURL

\* what every spelling of OWNER/REPO is to return
SamePair == parsed = [ok |-> TRUE, owner |-> input.owner, repo |-> input.repo]

\* C10 as stated: for every owner and repository name without a slash, every
\* spelling (scheme, host, trailing slash, .git suffix, surrounding blanks)
\* returns the same pair (owner, repo), the .git suffix stripped.
C10_EverySpellingSamePair ==
    (Returned /\ input.kind = "spelling") => SamePair

\* a name the spellings cannot change: not empty, no blank at either end
CleanName(n) == n # <<>> /\ "/" \notin Range(n) /\ strip(n) = n

\* C10 amended: the same, for names without leading or trailing whitespace
\* and a repository name that does not itself end in ".git".
C10_CleanSpellingSamePair ==
    (/\ Returned
     /\ input.kind = "spelling"
     /\ CleanName(input.owner) /\ CleanName(input.repo)
     /\ ~endswith(input.repo, GitSuffix))
    => SamePair

C10_Witness ==
    /\ Returned
    /\ input.kind = "spelling" /\ input.owner = GithubCom /\ input.repo = React
    /\ input.scheme = 4 /\ input.git /\ input.slashes = MaxSlashes /\ input.pad = MaxPad
    /\ SamePair

====
